---- MODULE Spec2Model ----
(***************************************************************************)
(* Wake-on-LAN Telegram bot (src/src/main.rs).                             *)
(*                                                                         *)
(* Part 1: create_magic_packet, the parser/encoder of hardware addresses,  *)
(*         as operators over strings modelled as sequences of characters.  *)
(* Part 2: the message handler run by the teloxide Dispatcher on the       *)
(*         single-threaded tokio runtime: one worker per chat, each        *)
(*         handling its updates one after the other.                       *)
(***************************************************************************)
EXTENDS Integers, Sequences, FiniteSets, TLC

VARIABLES
  macTokens,  \* the groups the address string under test is written from
  macStyle,   \* the separators it is written with
  macIn,      \* the address string given to create_magic_packet
  macOut,     \* what create_magic_packet returned for macIn
  config_path, \* the configuration file the process was started with
  inbox,      \* updates received from Telegram, not yet given to a worker
  queue,      \* per chat: the updates waiting for that chat's worker
  worker,     \* per chat: where the handler of the current update stands
  sent,       \* per update: the message, as received
  log,        \* per update: what its handler did, in order, with the time
  now,        \* the clock, in seconds
  busy,       \* the chat whose handler blocks the runtime's only thread in ping
  crashed,    \* the dispatcher has panicked: the process is gone
  nextId      \* number of the next update

macVars == <<macTokens, macStyle, macIn, macOut>>
botVars == <<config_path, inbox, queue, worker, sent, log, now, busy, crashed, nextId>>
vars == <<macTokens, macStyle, macIn, macOut,
          config_path, inbox, queue, worker, sent, log, now, busy, crashed, nextId>>

\* ------------------------------------------------------------------------
\* Bounds of the model
\* ------------------------------------------------------------------------

\* Largest number of separator-delimited groups in a generated address string.
MaxGroups == 7

\* Number of updates the bot receives in one run.
MaxMsgs == 2

\* The clock advances second by second up to MaxTime, and beyond it only to
\* the moment a sleeping handler is due.
MaxTime == 2

\* ------------------------------------------------------------------------
\* Part 1: create_magic_packet
\* ------------------------------------------------------------------------

\* Number of repetitions of the address in the packet (main.rs:60).
Repetitions == 16

\* Number of bytes of an address (main.rs:55) and of the 0xFF header (main.rs:59).
MacLen == 6
HeaderLen == 6

\* Radix given to u8::from_str_radix (main.rs:51) and the width of u8.
Radix == 16
U8Max == 255

\* The header byte 0xFF (main.rs:59).
HeaderByte == 255

\* c == ':' || c == '-'   (main.rs:49)
IsSeparatorColonOnly(c) == c = ":"

IsSeparator(c) == c = ":" \/ c = "-"

\* char::to_digit(16): the value of a hex digit, -1 for any other character.
DigitVal(c) ==
  CASE c = "0" -> 0  [] c = "1" -> 1  [] c = "2" -> 2  [] c = "3" -> 3
    [] c = "4" -> 4  [] c = "5" -> 5  [] c = "6" -> 6  [] c = "7" -> 7
    [] c = "8" -> 8  [] c = "9" -> 9
    [] c = "a" -> 10 [] c = "b" -> 11 [] c = "c" -> 12
    [] c = "d" -> 13 [] c = "e" -> 14 [] c = "f" -> 15
    [] c = "A" -> 10 [] c = "B" -> 11 [] c = "C" -> 12
    [] c = "D" -> 13 [] c = "E" -> 14 [] c = "F" -> 15
    [] OTHER -> -1

\* str::split(pred): the pieces between separators, empty pieces included.
\* SplitFrom(s, i, cur, acc): pieces of s[i..], cur the piece being read.
RECURSIVE SplitFrom(_, _, _, _)
SplitFrom(s, i, cur, acc) ==
  IF i > Len(s) THEN Append(acc, cur)
  ELSE IF IsSeparator(s[i]) THEN SplitFrom(s, i + 1, <<>>, Append(acc, cur))
  ELSE SplitFrom(s, i + 1, Append(cur, s[i]), acc)

Split(s) == SplitFrom(s, 1, <<>>, <<>>)

\* .filter(|s| !s.is_empty())   (main.rs:50)
NonEmpty(pieces) == SelectSeq(pieces, LAMBDA p : p # <<>>)

ParseErr == -1

\* Accumulate the digits of tok[i..] onto acc with checked arithmetic:
\* an invalid digit or a value above u8::MAX is an error.
RECURSIVE Digits(_, _, _)
Digits(tok, i, acc) ==
  IF i > Len(tok) THEN acc
  ELSE IF DigitVal(tok[i]) < 0 THEN ParseErr
  ELSE IF acc * Radix + DigitVal(tok[i]) > U8Max THEN ParseErr
  ELSE Digits(tok, i + 1, acc * Radix + DigitVal(tok[i]))

\* u8::from_str_radix(b, 16)   (main.rs:51): an optional leading '+', then
\* one or more hex digits whose value fits in a u8.
from_str_radix_wrapping(tok) ==
  IF tok = <<>> \/ \E i \in 1..Len(tok) : DigitVal(tok[i]) < 0 THEN ParseErr
  ELSE IF Len(tok) = 1 THEN DigitVal(tok[1])
  ELSE Radix * DigitVal(tok[Len(tok) - 1]) + DigitVal(tok[Len(tok)])

from_str_radix(tok) ==
  IF tok = <<>> THEN ParseErr
  ELSE IF tok[1] = "+" THEN (IF Len(tok) = 1 THEN ParseErr ELSE Digits(tok, 2, 0))
  ELSE Digits(tok, 1, 0)

\* .map(..).collect::<Result<Vec<u8>, _>>()   (main.rs:51-52)
ParseTokens(pieces) == [i \in 1..Len(pieces) |-> from_str_radix(pieces[i])]

\* packet.extend_from_slice(&mac_bytes), n times   (main.rs:60-62)
RECURSIVE Extend(_, _, _)
Extend(packet, bytes, n) ==
  IF n = 0 THEN packet ELSE Extend(packet \o bytes, bytes, n - 1)

ErrFormat == "Invalid MAC address format"
ErrLength == "MAC address must be exactly 6 bytes"

Err(e) == [ok |-> FALSE, err |-> e, packet |-> <<>>]
Ok(p) == [ok |-> TRUE, err |-> "", packet |-> p]

\* mac_bytes of create_magic_packet   (main.rs:48-53)
mac_bytes(mac) == ParseTokens(NonEmpty(Split(mac)))

\* The packet built from the parsed bytes   (main.rs:59-63)
BuildPacketShort(bytes) ==
  Extend([i \in 1..HeaderLen |-> HeaderByte], bytes, Repetitions - 1)

BuildPacket(bytes) ==
  Extend([i \in 1..HeaderLen |-> HeaderByte], bytes, Repetitions)

\* create_magic_packet   (main.rs:46-64)
create_magic_packet(mac) ==
  LET bytes == mac_bytes(mac) IN
  IF \E i \in 1..Len(bytes) : bytes[i] = ParseErr THEN Err(ErrFormat)
  ELSE IF Len(bytes) # MacLen THEN Err(ErrLength)
  ELSE Ok(BuildPacket(bytes))

\* ------------------------------------------------------------------------
\* Inputs of create_magic_packet: address strings written from groups
\* ------------------------------------------------------------------------

HexChars == <<"0", "1", "2", "3", "4", "5", "6", "7",
              "8", "9", "A", "B", "C", "D", "E", "F">>

\* A well-formed two-digit octet for position i; distinct in neighbouring positions.
Octet(i) == <<HexChars[((3 * i) % 16) + 1], HexChars[((7 * i + 1) % 16) + 1]>>

\* Groups that replace one octet: well-formed, lenient and malformed ones.
TokenSet ==
  { <<"a", "F">>, <<"7">>, <<"0", "F", "F">>, <<"1", "0", "0">>,
    <<"G", "G">>, <<"+", "5">>, <<"+">>, <<>>, <<"0", " ">>, <<"F", "F">> }

Styles == {"colon", "dash", "mixed"}

SepOf(style, i) ==
  CASE style = "colon" -> ":"
    [] style = "dash" -> "-"
    [] OTHER -> IF i % 2 = 1 THEN ":" ELSE "-"

\* The string made of the groups, a separator between each two.
RECURSIVE Render(_, _, _)
Render(tokens, style, i) ==
  IF i > Len(tokens) THEN <<>>
  ELSE IF i = Len(tokens) THEN tokens[i]
  ELSE tokens[i] \o <<SepOf(style, i)>> \o Render(tokens, style, i + 1)

\* n octets, the p-th replaced by d (p = 0: none replaced).
Groups(n, p, d) == [i \in 1..n |-> IF i = p THEN d ELSE Octet(i)]

NotRun == [ok |-> FALSE, err |-> "not run", packet |-> <<>>]

\* ------------------------------------------------------------------------
\* Part 2: configuration
\* ------------------------------------------------------------------------

\* Decimal digit of a character, -1 for any other character.
DecVal(c) ==
  IF c \in {"0", "1", "2", "3", "4", "5", "6", "7", "8", "9"} THEN DigitVal(c) ELSE -1

RECURSIVE DecDigits(_, _, _)
DecDigits(s, i, acc) ==
  IF i > Len(s) THEN acc
  ELSE IF DecVal(s[i]) < 0 THEN ParseErr
  ELSE DecDigits(s, i + 1, acc * 10 + DecVal(s[i]))

\* str::parse::<u64>(): an optional '+', then one or more decimal digits.
\* (The timeout strings of the model are far too short to overflow a u64.)
parse_u64(s) ==
  IF s = <<>> THEN ParseErr
  ELSE IF s[1] = "+" THEN (IF Len(s) = 1 THEN ParseErr ELSE DecDigits(s, 2, 0))
  ELSE DecDigits(s, 1, 0)

\* .unwrap_or(30)   (main.rs:199)
DefaultTimeout == 30

\* let timeout_secs: u64 = timeout_str.parse().unwrap_or(30);   (main.rs:199)
timeout_secs_or_zero(timeout_str) ==
  IF parse_u64(timeout_str) = ParseErr THEN 0 ELSE parse_u64(timeout_str)

timeout_secs(timeout_str) ==
  IF parse_u64(timeout_str) = ParseErr THEN DefaultTimeout ELSE parse_u64(timeout_str)

\* The [devices] table of the TOML file, entry by entry:
\* name = [MAC address, IP address, timeout]. The timeout of "nas" is the
\* string given: "0" in one configuration under test, "x" in the other.
RawDevices(nasTimeout) ==
  << [name |-> "pc",  mac |-> Render(Groups(6, 0, <<>>), "colon", 1),
      ip |-> "10.0.0.2", timeout |-> <<"1">>],
     [name |-> "nas", mac |-> Render(Groups(6, 2, <<"a", "F">>), "dash", 1),
      ip |-> "10.0.0.3", timeout |-> nasTimeout],
     [name |-> "bad", mac |-> Render(Groups(5, 0, <<>>), "colon", 1),
      ip |-> "10.0.0.9", timeout |-> <<"1">>] >>

\* The configuration files under test: allowed_users and [devices].
ConfigFiles ==
  [ path \in {"a.toml", "b.toml"} |->
      IF path = "a.toml"
      THEN [allowed_users |-> {1}, devices |-> RawDevices(<<"0">>)]
      ELSE [allowed_users |-> {0, 1}, devices |-> RawDevices(<<"x">>)] ]

\* toml::from_str::<Config>   (main.rs:14-19, 120-129): every entry of the
\* table that is a triple of strings becomes an entry of the map, as written;
\* no field is parsed or checked. keys is the order in which the map
\* iterates: arbitrary but fixed for the run, here that of the file.
from_toml(allowed, raw) ==
  [ allowed_users |-> allowed,
    keys |-> [i \in 1..Len(raw) |-> raw[i].name],
    devices |-> [ n \in { raw[i].name : i \in 1..Len(raw) } |->
                    LET e == CHOOSE x \in { raw[i] : i \in 1..Len(raw) } : x.name = n
                    IN [mac |-> e.mac, ip |-> e.ip, timeout |-> e.timeout] ] ]

\* What each file loads as.
Loaded ==
  [ path \in DOMAIN ConfigFiles |->
      from_toml(ConfigFiles[path].allowed_users, ConfigFiles[path].devices) ]

\* let config: Arc<Config> = Arc::new(..)   (main.rs:120): read once at
\* startup and shared, unchanged, by every handler.
config == Loaded[config_path]

\* ------------------------------------------------------------------------
\* Part 2: updates, events and the handler
\* ------------------------------------------------------------------------

Chats == {100, 200}
NoChat == 0

\* Where the updates under test come from: msg.from() (absent, <<>>, or a
\* user id) and msg.chat.id. User 1 writes in both chats, user 2 in the
\* first, and the second also carries messages without a sender.
Sources ==
  { [from |-> <<1>>, chat |-> 100], [from |-> <<1>>, chat |-> 200],
    [from |-> <<2>>, chat |-> 100], [from |-> <<>>, chat |-> 200] }

\* Device names written in commands: the configured ones, an unknown one and
\* one that differs from a configured one by case only.
WakeNames == {"pc", "nas", "bad", "ghost", "PC"}
StatusNames == {"pc", "ghost"}

\* text.split_whitespace()   (main.rs:153-154) of the messages under test.
Texts ==
  { <<>>, <<"/help">>, <<"/list">>, <<"/status_all">>, <<"/status">>,
    <<"/wake">>, <<"/reboot">> }
  \cup { <<"/status", n>> : n \in StatusNames }
  \cup { <<"/wake", n>> : n \in WakeNames }

NoMsg == [id |-> 0, from |-> <<>>, chat |-> NoChat, parts |-> <<>>]

\* What a handler did: one record per effect.
\* kind: the effect; ok: whether the call succeeded; flag: what it found
\* (lookup: found, ping and status replies: online); t: when.
E0 == [kind |-> "", text |-> "", name |-> "", num |-> 0, flag |-> FALSE,
       ok |-> TRUE, names |-> <<>>, data |-> <<>>, chat |-> NoChat, t |-> 0]

EvAuth(allowed) == [E0 EXCEPT !.kind = "auth", !.flag = allowed]
EvLookup(name, found) == [E0 EXCEPT !.kind = "lookup", !.name = name, !.flag = found]
EvEncode(name, ok) == [E0 EXCEPT !.kind = "encode", !.name = name, !.ok = ok]
EvSocket(ok) == [E0 EXCEPT !.kind = "socket", !.ok = ok]
EvSendTo(dest, packet, ok) ==
  [E0 EXCEPT !.kind = "send_to", !.text = dest, !.data = packet, !.ok = ok]
EvSleep(secs) == [E0 EXCEPT !.kind = "sleep", !.num = secs]
EvPing(name, ip) == [E0 EXCEPT !.kind = "ping", !.name = name, !.text = ip]
EvPinged(name, outcome, online) ==
  [E0 EXCEPT !.kind = "pinged", !.name = name, !.text = outcome, !.flag = online]
EvPanic == [E0 EXCEPT !.kind = "panic"]

\* bot.send_message(msg.chat.id, ..).await: text names the message, ok says
\* whether the request succeeded (the handler's `?` returns on failure).
EvReply(chat, text, name, num, flag, ok) ==
  [E0 EXCEPT !.kind = "reply", !.chat = chat, !.text = text, !.name = name,
             !.num = num, !.flag = flag, !.ok = ok]

\* The /list and /status_all replies carry the device names (and, for
\* /status_all, 1 or 0 for each: online or offline).
EvListing(chat, text, names, marks, ok) ==
  [E0 EXCEPT !.kind = "reply", !.chat = chat, !.text = text, !.names = names,
             !.data = marks, !.ok = ok]

Stamp(evs, t) == [i \in 1..Len(evs) |-> [evs[i] EXCEPT !.t = t]]

\* "255.255.255.255:9"   (main.rs:207)
BroadcastDiscardPort == "255.255.255.255:7"

Broadcast == "255.255.255.255:9"

\* let user_id = user.map(|u| u.id.0).unwrap_or(0);   (main.rs:139)
user_id_or_one(m) == IF m.from = <<>> THEN 1 ELSE m.from[1]

user_id(m) == IF m.from = <<>> THEN 0 ELSE m.from[1]

\* config.allowed_users.contains(&user_id)   (main.rs:148)
AuthorizedAnyone(cfg, uid) == TRUE

Authorized(cfg, uid) == uid \in cfg.allowed_users

\* let cmd = parts.get(0).copied().unwrap_or("");   (main.rs:155)
cmd(m) == IF Len(m.parts) >= 1 THEN m.parts[1] ELSE ""

\* config.devices.get(*name)   (main.rs:186, 198)
Known(cfg, name) == name \in DOMAIN cfg.devices

IdleW == [pc |-> "idle", m |-> NoMsg, branch |-> "", name |-> "",
          wakeAt |-> 0, todo |-> <<>>, results |-> <<>>]
DeadW == [IdleW EXCEPT !.pc = "dead"]

\* Result of running a handler up to its next suspension: the effects and
\* the worker's new state.
Step(evs, w) == [evs |-> evs, w |-> w]

Probing(m, branch, name, todo, results) ==
  [pc |-> "probing", m |-> m, branch |-> branch, name |-> name,
   wakeAt |-> 0, todo |-> todo, results |-> results]

SleepingNoDelay(m, name, at) ==
  [pc |-> "sleeping", m |-> m, branch |-> "/wake", name |-> name,
   wakeAt |-> 0, todo |-> <<>>, results |-> <<>>]

\* tokio::time::sleep(Duration::from_secs(timeout_secs)).await   (main.rs:221)
Sleeping(m, name, at) ==
  [pc |-> "sleeping", m |-> m, branch |-> "/wake", name |-> name,
   wakeAt |-> at, todo |-> <<>>, results |-> <<>>]

\* "/start" | "/help"   (main.rs:158-161)
RunHelp(m, replyOk) ==
  Step(<<EvReply(m.chat, "menu", "", 0, FALSE, replyOk)>>, IdleW)

\* "/list"   (main.rs:163-170)
RunList(cfg, m, replyOk) ==
  Step(<<EvListing(m.chat, "list", cfg.keys, <<>>, replyOk)>>, IdleW)

\* "/status_all"   (main.rs:172-182): the first ping of the loop starts at
\* once; with no device at all the report is sent at once.
RunStatusAll(cfg, m, replyOk) ==
  IF cfg.keys = <<>>
  THEN Step(<<EvListing(m.chat, "report", <<>>, <<>>, replyOk)>>, IdleW)
  ELSE Step(<<EvPing(cfg.keys[1], cfg.devices[cfg.keys[1]].ip)>>,
            Probing(m, "/status_all", cfg.keys[1], Tail(cfg.keys), <<>>))

\* "/status"   (main.rs:184-194)
RunStatus(cfg, m) ==
  IF Len(m.parts) < 2 THEN Step(<<>>, IdleW)
  ELSE LET name == m.parts[2] IN
    IF ~Known(cfg, name) THEN Step(<<EvLookup(name, FALSE)>>, IdleW)
    ELSE Step(<<EvLookup(name, TRUE), EvPing(name, cfg.devices[name].ip)>>,
              Probing(m, "/status", name, <<>>, <<>>))

\* "/wake" for a device of the registry   (main.rs:199-221), up to the sleep.
\* sockOk: create_wol_socket returned Ok; sendOk: send_to returned Ok;
\* replyOk: the reply was delivered.
RunWakeKnown(cfg, m, name, t, sockOk, sendOk, replyOk) ==
  LET dev == cfg.devices[name]
      secs == timeout_secs(dev.timeout)
      packet == create_magic_packet(dev.mac)
      found == <<EvLookup(name, TRUE)>>
  IN
  IF ~packet.ok
    THEN Step(found \o <<EvEncode(name, FALSE), EvPanic>>, DeadW)
  ELSE IF ~sockOk
    THEN Step(found \o <<EvEncode(name, TRUE), EvSocket(FALSE), EvPanic>>, DeadW)
  ELSE IF ~sendOk
    THEN Step(found \o <<EvEncode(name, TRUE), EvSocket(TRUE),
                         EvSendTo(Broadcast, packet.packet, FALSE),
                         EvReply(m.chat, "neterr", "", 0, FALSE, replyOk)>>, IdleW)
  ELSE IF ~replyOk
    THEN Step(found \o <<EvEncode(name, TRUE), EvSocket(TRUE),
                         EvSendTo(Broadcast, packet.packet, TRUE),
                         EvReply(m.chat, "ack", name, secs, FALSE, FALSE)>>, IdleW)
  ELSE Step(found \o <<EvEncode(name, TRUE), EvSocket(TRUE),
                       EvSendTo(Broadcast, packet.packet, TRUE),
                       EvReply(m.chat, "ack", name, secs, FALSE, TRUE),
                       EvSleep(secs)>>,
            Sleeping(m, name, t + secs))

RunWakeSilent(cfg, m, t, sockOk, sendOk, replyOk) ==
  IF Len(m.parts) < 2 THEN Step(<<>>, IdleW)
  ELSE LET name == m.parts[2] IN
    IF ~Known(cfg, name)
    THEN Step(<<EvLookup(name, FALSE)>>, IdleW)
    ELSE RunWakeKnown(cfg, m, name, t, sockOk, sendOk, replyOk)

\* "/wake"   (main.rs:196-232)
RunWake(cfg, m, t, sockOk, sendOk, replyOk) ==
  IF Len(m.parts) < 2 THEN Step(<<>>, IdleW)
  ELSE LET name == m.parts[2] IN
    IF ~Known(cfg, name)
    THEN Step(<<EvLookup(name, FALSE),
                EvReply(m.chat, "notfound", "", 0, FALSE, replyOk)>>, IdleW)
    ELSE RunWakeKnown(cfg, m, name, t, sockOk, sendOk, replyOk)

\* match cmd { .. }   (main.rs:157-234)
RunCommand(cfg, m, t, sockOk, sendOk, replyOk) ==
  CASE cmd(m) \in {"/start", "/help"} -> RunHelp(m, replyOk)
    [] cmd(m) = "/list" -> RunList(cfg, m, replyOk)
    [] cmd(m) = "/status_all" -> RunStatusAll(cfg, m, replyOk)
    [] cmd(m) = "/status" -> RunStatus(cfg, m)
    [] cmd(m) = "/wake" -> RunWake(cfg, m, t, sockOk, sendOk, replyOk)
    [] OTHER -> Step(<<>>, IdleW)

\* The handler from its start to its first suspension   (main.rs:137-236).
RunHandler(cfg, m, t, sockOk, sendOk, replyOk) ==
  IF ~Authorized(cfg, user_id(m))
  THEN Step(<<EvAuth(FALSE)>>, IdleW)
  ELSE LET r == RunCommand(cfg, m, t, sockOk, sendOk, replyOk)
       IN Step(<<EvAuth(TRUE)>> \o r.evs, r.w)

\* Outcomes of `ping -c 1 -W 1 ip`: exit status 0, another exit status, or
\* the command could not be run at all.
PingOutcomes == {"success", "failure", "spawn_error"}

\* is_device_online   (main.rs:87-100)
is_device_online_inverted(outcome) == outcome # "success"

is_device_online(outcome) == outcome = "success"

\* The handler from the return of a ping to its next suspension.
AfterPing(cfg, w, outcome, replyOk) ==
  LET online == is_device_online(outcome)
      pinged == <<EvPinged(w.name, outcome, online)>>
      results == Append(w.results, IF online THEN 1 ELSE 0)
  IN
  CASE w.branch = "/status" ->
         Step(pinged \o <<EvReply(w.m.chat, "status", w.name, 0, online, replyOk)>>, IdleW)
    [] w.branch = "/wake" ->
         Step(pinged \o <<EvReply(w.m.chat, "result", w.name, 0, online, replyOk)>>, IdleW)
    [] OTHER ->
         IF w.todo = <<>>
         THEN Step(pinged \o <<EvListing(w.m.chat, "report", cfg.keys, results, replyOk)>>,
                   IdleW)
         ELSE Step(pinged \o <<EvPing(w.todo[1], cfg.devices[w.todo[1]].ip)>>,
                   Probing(w.m, "/status_all", w.todo[1], Tail(w.todo), results))

\* ------------------------------------------------------------------------
\* Part 2: the dispatcher, the workers and the clock
\* ------------------------------------------------------------------------

InitBot ==
  /\ config_path \in DOMAIN ConfigFiles
  /\ inbox = <<>>
  /\ queue = [c \in Chats |-> <<>>]
  /\ worker = [c \in Chats |-> IdleW]
  /\ sent = [i \in 1..MaxMsgs |-> NoMsg]
  /\ log = [i \in 1..MaxMsgs |-> <<>>]
  /\ now = 0
  /\ busy = NoChat
  /\ crashed = FALSE
  /\ nextId = 1

\* Telegram holds a new update for the bot.
Receive ==
  /\ ~crashed
  /\ nextId <= MaxMsgs
  /\ \E src \in Sources, parts \in Texts :
       LET m == [id |-> nextId, from |-> src.from, chat |-> src.chat, parts |-> parts]
       IN /\ inbox' = Append(inbox, m)
          /\ sent' = [sent EXCEPT ![nextId] = m]
  /\ nextId' = nextId + 1
  /\ UNCHANGED <<macVars, config_path, queue, worker, log, now, busy, crashed>>

\* Dispatcher::dispatch   (main.rs:241-246): the update goes to the worker of
\* its chat; a worker whose handler panicked no longer receives, and sending
\* to it panics the dispatcher.
Dispatch ==
  /\ ~crashed
  /\ busy = NoChat
  /\ inbox # <<>>
  /\ LET m == Head(inbox) IN
       IF worker[m.chat].pc = "dead"
       THEN crashed' = TRUE /\ UNCHANGED queue
       ELSE crashed' = FALSE /\ queue' = [queue EXCEPT ![m.chat] = Append(@, m)]
  /\ inbox' = Tail(inbox)
  /\ UNCHANGED <<macVars, config_path, worker, sent, log, now, busy, nextId>>

\* Every way the handler of m can run to its first suspension at time t: one
\* for each outcome of create_wol_socket, send_to and the delivery of a reply.
HandlerRuns(cfg, m, t) ==
  { RunHandler(cfg, m, t, sockOk, sendOk, replyOk) :
      sockOk \in BOOLEAN, sendOk \in BOOLEAN, replyOk \in BOOLEAN }

\* The worker of chat c can take its next update: the thread is free, the
\* handler of the chat's previous update has returned, an update waits.
CanHandle(c) ==
  /\ ~crashed
  /\ busy = NoChat
  /\ worker[c].pc = "idle"
  /\ queue[c] # <<>>

\* The worker of chat c takes its next update and runs the handler up to its
\* first suspension. A panic either unwinds the worker's task only or, in a
\* build with panic = "abort", ends the process.
Handle(c) ==
  /\ CanHandle(c)
  /\ LET m == Head(queue[c]) IN
       \E r \in HandlerRuns(config, m, now) :
          /\ worker' = [worker EXCEPT ![c] = r.w]
          /\ log' = [log EXCEPT ![m.id] = @ \o Stamp(r.evs, now)]
          /\ busy' = IF r.w.pc = "probing" THEN c ELSE NoChat
          /\ crashed' \in IF r.w.pc = "dead" THEN BOOLEAN ELSE {FALSE}
  /\ queue' = [queue EXCEPT ![c] = Tail(@)]
  /\ UNCHANGED <<macVars, config_path, inbox, sent, now, nextId>>

\* tokio::time::sleep(Duration::from_secs(timeout_secs)).await returns and
\* the handler calls is_device_online(ip)   (main.rs:221-223).
SleepDone(c) ==
  /\ ~crashed
  /\ busy = NoChat
  /\ worker[c].pc = "sleeping"
  /\ now >= worker[c].wakeAt
  /\ LET w == worker[c] IN
       /\ worker' = [worker EXCEPT ![c] = Probing(w.m, "/wake", w.name, <<>>, <<>>)]
       /\ log' = [log EXCEPT ![w.m.id] =
                    @ \o Stamp(<<EvPing(w.name, config.devices[w.name].ip)>>, now)]
  /\ busy' = c
  /\ UNCHANGED <<macVars, config_path, inbox, queue, sent, now, crashed, nextId>>

\* Command::new("ping")..status() returns   (main.rs:90-99) and the handler
\* runs on to its next suspension.
ProbeEnd(c) ==
  /\ ~crashed
  /\ busy = c
  /\ \E outcome \in PingOutcomes, replyOk \in BOOLEAN :
       LET r == AfterPing(config, worker[c], outcome, replyOk) IN
         /\ worker' = [worker EXCEPT ![c] = r.w]
         /\ log' = [log EXCEPT ![worker[c].m.id] = @ \o Stamp(r.evs, now)]
         /\ busy' = IF r.w.pc = "probing" THEN c ELSE NoChat
  /\ UNCHANGED <<macVars, config_path, inbox, queue, sent, now, crashed, nextId>>

\* One second passes. The clock counts only while a handler sleeps: at any
\* other time nothing in the program reads it.
Tick ==
  /\ ~crashed
  /\ now < MaxTime
  /\ \E c \in Chats : worker[c].pc = "sleeping"
  /\ now' = now + 1
  /\ UNCHANGED <<macVars, config_path, inbox, queue, worker, sent, log, busy, crashed, nextId>>

Due == { worker[c].wakeAt : c \in { d \in Chats : worker[d].pc = "sleeping" } }

\* Time passes until the next sleeping handler is due.
Advance ==
  /\ ~crashed
  /\ \E t \in Due :
       /\ t > now
       /\ \A u \in Due : u > now => t <= u
       /\ now' = t
  /\ UNCHANGED <<macVars, config_path, inbox, queue, worker, sent, log, busy, crashed, nextId>>

\* ------------------------------------------------------------------------
\* Specifications
\* ------------------------------------------------------------------------

MacIdle ==
  /\ macTokens = <<>>
  /\ macStyle = "colon"
  /\ macIn = <<>>
  /\ macOut = NotRun

Init == MacIdle /\ InitBot

Next ==
  \/ Receive
  \/ Dispatch
  \/ \E c \in Chats : Handle(c)
  \/ \E c \in Chats : SleepDone(c)
  \/ \E c \in Chats : ProbeEnd(c)
  \/ Tick
  \/ Advance


\* The bot: the dispatcher, its workers and the clock.
Spec == Init /\ [][Next]_vars

\* The bot with its scheduling   (main.rs:102, 241-246): the runtime polls
\* every task that is ready (the dispatcher, a worker with an update, a
\* handler whose timer or ping has ended), and time passes. Handle(c) changes
\* queue[c] whenever it can be taken, so ENABLED <<Handle(c)>>_vars is
\* CanHandle(c) and the weak fairness of Handle(c) is written with it.
FairSpec ==
  /\ Init /\ [][Next]_vars
  /\ WF_vars(Dispatch)
  /\ \A c \in Chats :
       /\ ([]<>~CanHandle(c)) \/ ([]<><<Handle(c)>>_vars)
       /\ WF_vars(SleepDone(c))
       /\ WF_vars(ProbeEnd(c))
  /\ WF_vars(Advance)

InitMac ==
  /\ \E n \in 0..MaxGroups, style \in Styles :
       \E p \in 0..n, d \in TokenSet :
         /\ macTokens = Groups(n, p, d)
         /\ macStyle = style
         /\ macIn = Render(Groups(n, p, d), style, 1)
  /\ macOut = NotRun
  /\ InitBot

\* let packet = create_magic_packet(mac)   (main.rs:203)
Encode ==
  /\ macOut = NotRun
  /\ macOut' = create_magic_packet(macIn)
  /\ UNCHANGED <<macTokens, macStyle, macIn, botVars>>

NextMac == Encode

\* create_magic_packet applied to the generated address strings.
SpecMac == InitMac /\ [][NextMac]_vars

\* ------------------------------------------------------------------------
\* Properties of create_magic_packet (under SpecMac)
\* ------------------------------------------------------------------------

\* A group written as exactly two hex digits, and the byte it denotes.
IsOctet(tok) == Len(tok) = 2 /\ DigitVal(tok[1]) >= 0 /\ DigitVal(tok[2]) >= 0
OctetValue(tok) == 16 * DigitVal(tok[1]) + DigitVal(tok[2])

\* The string under test is six two-digit hex octets.
ValidAddress ==
  Len(macTokens) = 6 /\ \A i \in 1..6 : IsOctet(macTokens[i])

Encoded == macOut # NotRun

\* C6: for every valid 6-byte hardware address the encoder returns exactly
\* 102 bytes: six 0xFF, then, for every k in 0..15, the six address bytes in
\* order at [6+6k, 12+6k).
C6_PacketLayout ==
  (Encoded /\ ValidAddress) =>
    /\ macOut.ok
    /\ Len(macOut.packet) = 102
    /\ \A i \in 1..6 : macOut.packet[i] = 255
    /\ \A k \in 0..15 : \A j \in 1..6 :
         macOut.packet[6 + 6 * k + j] = OctetValue(macTokens[j])

\* An address with a lower-case octet, written with both separators, was encoded.
C6_Witness ==
  /\ Encoded /\ ValidAddress /\ macOut.ok
  /\ macStyle = "mixed"
  /\ \E i \in 1..6 : macTokens[i] = <<"a", "F">>

\* The value of a string of hex digits d[1..n].
RECURSIVE HexValue(_, _)
HexValue(d, n) == IF n = 0 THEN 0 ELSE 16 * HexValue(d, n - 1) + DigitVal(d[n])

\* A group the parser accepts as a byte: hex digits, optionally after a '+',
\* of value at most 255.
AcceptedGroup(tok) ==
  LET d == IF tok # <<>> /\ tok[1] = "+" THEN Tail(tok) ELSE tok IN
    /\ d # <<>>
    /\ \A i \in 1..Len(d) : DigitVal(d[i]) >= 0
    /\ HexValue(d, Len(d)) <= 255

NonEmptyGroups == SelectSeq(macTokens, LAMBDA t : t # <<>>)

\* C9 as claimed: parsing fails for every string with a number of groups
\* other than 6 (empty groups counted), for every string with a group that
\* is not a two-digit hex octet, and for the empty string.
C9_FailsAsClaimed ==
  (Encoded /\ ( \/ Len(macTokens) # 6
                \/ \E i \in 1..Len(macTokens) : ~IsOctet(macTokens[i])
                \/ macIn = <<>> ))
    => ~macOut.ok

\* C9 (amended): parsing fails for every string whose number of non-empty
\* groups is not 6, for every string with a non-empty group that is not a
\* hex number of value at most 255 (optionally preceded by '+'), and for the
\* empty string.
C9_FailsOnMalformed ==
  (Encoded /\ ( \/ Len(NonEmptyGroups) # 6
                \/ \E i \in 1..Len(NonEmptyGroups) : ~AcceptedGroup(NonEmptyGroups[i])
                \/ macIn = <<>> ))
    => ~macOut.ok

\* Parsing failed, with the length error, for seven well-formed octets.
C9_Witness ==
  /\ Encoded /\ ~macOut.ok
  /\ Len(macTokens) = 7 /\ \A i \in 1..7 : IsOctet(macTokens[i])
  /\ macOut.err = ErrLength

\* C10: six valid hex octets written with ':' and written with '-' parse to
\* the same six bytes and encode to the same packet.
C10_SeparatorChoice ==
  (Encoded /\ ValidAddress /\ macStyle = "colon") =>
    LET dashed == Render(macTokens, "dash", 1) IN
      /\ macOut.ok
      /\ mac_bytes(dashed) = [i \in 1..6 |-> OctetValue(macTokens[i])]
      /\ mac_bytes(macIn) = mac_bytes(dashed)
      /\ create_magic_packet(dashed) = macOut

\* A ':'-separated address was encoded whose '-'-separated form differs from it.
C10_Witness ==
  /\ Encoded /\ ValidAddress /\ macStyle = "colon" /\ macOut.ok
  /\ Render(macTokens, "dash", 1) # macIn
  /\ \E i \in 1..6 : macTokens[i] = <<"F", "F">>

\* ------------------------------------------------------------------------
\* Properties of the bot (under Spec)
\* ------------------------------------------------------------------------

Ids == 1..MaxMsgs

\* The handler of update id has started; is suspended; has ended.
Handled(id) == log[id] # <<>>
Running(id) ==
  \E c \in Chats : worker[c].pc \in {"probing", "sleeping"} /\ worker[c].m.id = id
Finished(id) == Handled(id) /\ ~Running(id)

Kinds(id) == [i \in 1..Len(log[id]) |-> log[id][i].kind]
Of(id, kind) == SelectSeq(log[id], LAMBDA e : e.kind = kind)
Replies(id) == Of(id, "reply")

\* The sender of update id is on the allow-list of the configuration file.
Allowed(id) ==
  (IF sent[id].from = <<>> THEN 0 ELSE sent[id].from[1])
     \in ConfigFiles[config_path].allowed_users

\* The names of the [devices] table of the configuration file.
Configured == { ConfigFiles[config_path].devices[i].name :
                  i \in 1..Len(ConfigFiles[config_path].devices) }

Entry(name) ==
  CHOOSE e \in { ConfigFiles[config_path].devices[i] :
                   i \in 1..Len(ConfigFiles[config_path].devices) } : e.name = name

\* Update id is "/wake <name>" (resp. "/status <name>").
IsWake(id) == Len(sent[id].parts) >= 2 /\ sent[id].parts[1] = "/wake"
IsStatus(id) == Len(sent[id].parts) >= 2 /\ sent[id].parts[1] = "/status"
Arg(id) == sent[id].parts[2]

\* C1: an update whose sender is not on the allow-list gets no reply and
\* causes no lookup, encoding, socket, transmission or probe; an update
\* whose sender is on it is processed: its command's branch is taken.
C1_AuthorizationGate ==
  \A id \in Ids : Handled(id) =>
    IF ~Allowed(id)
    THEN Kinds(id) = <<"auth">> /\ ~log[id][1].flag
    ELSE /\ log[id][1].kind = "auth" /\ log[id][1].flag
         /\ (sent[id].parts = <<"/help">> =>
               Len(log[id]) >= 2 /\ log[id][2].kind = "reply" /\ log[id][2].text = "menu")
         /\ (sent[id].parts = <<"/list">> =>
               Len(log[id]) >= 2 /\ log[id][2].kind = "reply" /\ log[id][2].text = "list")
         /\ (sent[id].parts = <<"/status_all">> =>
               Len(log[id]) >= 2 /\ log[id][2].kind = "ping")
         /\ ((IsWake(id) \/ IsStatus(id)) =>
               Len(log[id]) >= 2 /\ log[id][2].kind = "lookup"
                 /\ log[id][2].name = Arg(id))

\* A /wake of a configured device by a sender not on the allow-list was
\* dropped, and a /wake by a sender on it was acknowledged.
C1_Witness ==
  /\ \E id \in Ids : Handled(id) /\ ~Allowed(id) /\ sent[id].parts = <<"/wake", "pc">>
  /\ \E id \in Ids : Handled(id) /\ Allowed(id) /\ IsWake(id)
                       /\ \E i \in 1..Len(log[id]) : log[id][i].text = "ack"

\* Update id is a /wake of a configured device by a sender on the allow-list.
WakeOfConfigured(id) ==
  Handled(id) /\ Allowed(id) /\ IsWake(id) /\ Arg(id) \in Configured

FullWake ==
  <<"auth", "lookup", "encode", "socket", "send_to", "reply",
    "sleep", "ping", "pinged", "reply">>

IsPrefix(s, t) == Len(s) <= Len(t) /\ \A i \in 1..Len(s) : s[i] = t[i]

\* The transmission, the acknowledgment, the delay, the probe and the
\* follow-up of update id, as far as they have happened, are in this order
\* and are those of its device.
WakeInOrder(id) ==
  LET L == log[id]
      dev == Entry(Arg(id))
      secs == timeout_secs(dev.timeout)
  IN /\ IsPrefix(Kinds(id), FullWake)
     /\ Len(L) >= 7
     /\ L[5].ok /\ L[5].text = "255.255.255.255:9"
     /\ L[5].data = create_magic_packet(dev.mac).packet
     /\ L[6].text = "ack" /\ L[6].name = Arg(id) /\ L[6].num = secs
     /\ L[6].chat = sent[id].chat /\ L[6].t >= L[5].t
     /\ L[7].num = secs
     /\ (Len(L) >= 8 => L[8].text = dev.ip /\ L[8].t >= L[6].t + secs)
     /\ (Len(L) >= 10 =>
           /\ L[10].text = "result" /\ L[10].name = Arg(id)
           /\ L[10].chat = sent[id].chat
           /\ L[10].flag = (L[9].text = "success"))

\* C2 as claimed: every /wake of a configured device by a sender on the
\* allow-list produces the transmission, one acknowledgment with the
\* timeout, after that many seconds one probe, then one follow-up that says
\* online iff the probe succeeded, and no other reply.
C2_AlwaysFullSequence ==
  \A id \in Ids : (WakeOfConfigured(id) /\ Finished(id)) =>
    Kinds(id) = FullWake /\ WakeInOrder(id)

\* C2 (amended): the sequence is produced when the packet was encoded and
\* sent and the acknowledgment was delivered. When send_to fails the only
\* reply is the network error; when the acknowledgment is not delivered
\* nothing follows it; when encoding or opening the socket fails the
\* handler panics without a reply.
C2_WakeSequence ==
  \A id \in Ids : WakeOfConfigured(id) =>
    LET L == log[id]
        sentOk == Len(L) >= 5 /\ L[5].kind = "send_to" /\ L[5].ok
        acked == Len(L) >= 6 /\ L[6].text = "ack" /\ L[6].ok
    IN IF sentOk /\ acked
         THEN WakeInOrder(id) /\ (Finished(id) => Kinds(id) = FullWake)
       ELSE IF sentOk
         THEN /\ Kinds(id) = <<"auth", "lookup", "encode", "socket", "send_to", "reply">>
              /\ L[6].text = "ack" /\ ~L[6].ok
       ELSE IF Len(L) >= 5 /\ L[5].kind = "send_to"
         THEN /\ Kinds(id) = <<"auth", "lookup", "encode", "socket", "send_to", "reply">>
              /\ L[6].text = "neterr"
       ELSE /\ Kinds(id) \in { <<"auth", "lookup", "encode", "panic">>,
                               <<"auth", "lookup", "encode", "socket", "panic">> }
            /\ ~L[Len(L) - 1].ok

\* A /wake of "pc" ran to its end: the probe came a second or more after
\* the acknowledgment and the follow-up said online.
C2_Witness ==
  \E id \in Ids :
    /\ WakeOfConfigured(id) /\ Finished(id) /\ Arg(id) = "pc"
    /\ Kinds(id) = FullWake
    /\ log[id][8].t > log[id][6].t
    /\ log[id][10].flag

\* C3 as claimed: the command loop never waits for a verification: while a
\* wake is in its verification delay, a /help from a sender on the allow-list
\* that waits for a worker can be handled at once, in the same chat as in
\* any other.
C3_LoopNeverWaits ==
  (~crashed /\ busy = NoChat /\ \E d \in Chats : worker[d].pc = "sleeping") =>
    \A c \in Chats :
      ( /\ queue[c] # <<>> /\ worker[c].pc # "dead"
        /\ Allowed(Head(queue[c]).id) /\ Head(queue[c]).parts = <<"/help">> )
      => CanHandle(c)

\* C4: a /wake by a sender on the allow-list for a name that is not a key
\* of the registry (compared exactly) encodes nothing, opens no socket,
\* transmits and probes nothing, and gets exactly one reply: not found.
C4_UnknownDevice ==
  \A id \in Ids : (Handled(id) /\ Allowed(id) /\ IsWake(id) /\ Arg(id) \notin Configured) =>
    /\ Kinds(id) = <<"auth", "lookup", "reply">>
    /\ log[id][2].name = Arg(id) /\ ~log[id][2].flag
    /\ log[id][3].text = "notfound" /\ log[id][3].chat = sent[id].chat
    /\ Finished(id)

\* Both "/wake ghost" and "/wake PC" ("pc" is configured) were answered.
C4_Witness ==
  /\ \E id \in Ids : Handled(id) /\ Allowed(id) /\ sent[id].parts = <<"/wake", "PC">>
                       /\ Len(Replies(id)) = 1
  /\ \E id \in Ids : Handled(id) /\ Allowed(id) /\ sent[id].parts = <<"/wake", "ghost">>

\* C5 as claimed: when opening the socket or sending fails, the sender gets
\* exactly one network-error reply, no acknowledgment, and there is no
\* delay, no probe and no follow-up.
C5_TransmitFailure ==
  \A id \in Ids :
    (Finished(id) /\ \E i \in 1..Len(log[id]) :
        log[id][i].kind \in {"socket", "send_to"} /\ ~log[id][i].ok) =>
      /\ Len(Replies(id)) = 1 /\ Replies(id)[1].text = "neterr"
      /\ Of(id, "sleep") = <<>> /\ Of(id, "ping") = <<>>

\* Every reply and probe of a /wake carries the chat, the name, the timeout
\* and the address of its own request.
NoCrossTalk(id) ==
  \A i \in 1..Len(log[id]) :
    LET e == log[id][i] IN
      /\ (e.kind = "reply" => e.chat = sent[id].chat /\ e.name \in {"", Arg(id)})
      /\ (e.kind = "ping" => e.name = Arg(id) /\ e.text = Entry(Arg(id)).ip)
      /\ (e.text = "ack" => e.num = timeout_secs(Entry(Arg(id)).timeout))

\* C7 as claimed: of two /wake requests in flight together, each has replies
\* of its own only, and neither waits for the other: while one is in its
\* verification delay the other, once given to its worker, can start.
C7_IndependentWakes ==
  /\ \A id \in Ids : WakeOfConfigured(id) => NoCrossTalk(id)
  /\ \A c \in Chats :
       ( /\ ~crashed /\ busy = NoChat
         /\ queue[c] # <<>>
         /\ Allowed(Head(queue[c]).id) /\ IsWake(Head(queue[c]).id)
         /\ Arg(Head(queue[c]).id) \in Configured
         /\ \E d \in Chats : worker[d].pc = "sleeping" )
       => CanHandle(c)

\* The address of an entry of the [devices] table is malformed.
Malformed(e) == ~create_magic_packet(e.mac).ok

\* C8 as claimed: with exactly one malformed entry among N+1, the registry
\* has N devices, /list does not name the malformed one, and a /wake or
\* /status of its name is answered "not found".
C8_MalformedSkipped ==
  LET raw == ConfigFiles[config_path].devices
      bad == { i \in 1..Len(raw) : Malformed(raw[i]) }
  IN Cardinality(bad) = 1 =>
       /\ Cardinality(DOMAIN config.devices) = Len(raw) - 1
       /\ \A i \in bad : raw[i].name \notin DOMAIN config.devices
       /\ \A id \in Ids : \A k \in 1..Len(log[id]) :
            /\ (log[id][k].text = "list" =>
                  \A i \in bad : \A j \in 1..Len(log[id][k].names) :
                      log[id][k].names[j] # raw[i].name)
            /\ (log[id][k].kind = "lookup" /\ (\E i \in bad : raw[i].name = log[id][k].name)
                  => ~log[id][k].flag)

\* The identity the handler gives the sender of update id.
SenderOf(id) == IF sent[id].from = <<>> THEN 0 ELSE sent[id].from[1]

\* C11 as claimed: a probe never blocks the commands of other callers: while
\* a probe started by one request (/status, /status_all or the verification
\* of a wake) is in flight, a /help of another caller on the allow-list that
\* waits for the idle worker of another chat can be handled at once.
C11_ProbeNeverBlocks ==
  \A d \in Chats : (~crashed /\ busy = d) =>
    \A c \in Chats \ {d} :
      ( /\ queue[c] # <<>> /\ worker[c].pc = "idle"
        /\ Allowed(Head(queue[c]).id)
        /\ SenderOf(Head(queue[c]).id) # SenderOf(worker[d].m.id)
        /\ Head(queue[c]).parts = <<"/help">> )
      => CanHandle(c)

\* The encoding of update id's address failed.
EncodeFailed(id) ==
  \E i \in 1..Len(log[id]) : log[id][i].kind = "encode" /\ ~log[id][i].ok

\* The chat whose worker handles update id.
ChatOf(id) == sent[id].chat

\* C12 as claimed: a /wake that reaches encoding with a malformed address
\* fails alone: the caller gets the network-error reply, nothing is
\* transmitted, no verification follows, and the process and the worker of
\* the chat keep running.
C12_MalformedConfined ==
  \A id \in Ids : EncodeFailed(id) =>
    /\ Len(Replies(id)) = 1 /\ Replies(id)[1].text = "neterr"
    /\ Of(id, "send_to") = <<>> /\ Of(id, "sleep") = <<>> /\ Of(id, "ping") = <<>>
    /\ ~crashed
    /\ worker[ChatOf(id)].pc # "dead"

\* The replies that report an error.
ErrorTexts == {"notfound", "neterr"}

\* C13 as claimed: every "/status <name>" and "/wake <name>" of a sender on
\* the allow-list whose name is not in the registry is answered with exactly
\* one reply, an error.
C13_UnknownNameAnswered ==
  \A id \in Ids :
    ( /\ Handled(id) /\ Allowed(id)
      /\ (IsWake(id) \/ IsStatus(id))
      /\ Arg(id) \notin Configured )
    => /\ Len(Replies(id)) = 1
       /\ Replies(id)[1].text \in ErrorTexts

\* Positions of the events of a kind in the log of update id.
At(id, kind) == { i \in 1..Len(log[id]) : log[id][i].kind = kind }

\* C14: every update transmits at most one datagram (so a failed send is
\* not tried again); a datagram goes to 255.255.255.255 port 9 and is sent
\* before the acknowledgment, which follows a successful send only; and only
\* a /wake of a device of the registry transmits.
C14_OneBroadcast ==
  \A id \in Ids :
    /\ Cardinality(At(id, "send_to")) <= 1
    /\ \A i \in At(id, "send_to") :
         /\ log[id][i].text = "255.255.255.255:9"
         /\ IsWake(id) /\ Allowed(id) /\ Arg(id) \in Configured
         /\ log[id][i].data = create_magic_packet(Entry(Arg(id)).mac).packet
    /\ \A j \in At(id, "reply") : log[id][j].text = "ack" =>
         \E i \in At(id, "send_to") : i < j /\ log[id][i].ok
    /\ (~log[id] = <<>> /\ ~(IsWake(id) /\ Arg(id) \in Configured)) =>
         At(id, "send_to") = {}

\* A /wake whose send failed has ended with its one datagram and the
\* network-error reply, and a /status of a device has been answered
\* without a datagram.
C14_Witness ==
  /\ \E id \in Ids :
       /\ WakeOfConfigured(id) /\ Finished(id)
       /\ Cardinality(At(id, "send_to")) = 1
       /\ \E i \in At(id, "send_to") : ~log[id][i].ok
       /\ Len(Replies(id)) = 1
  /\ \E id \in Ids :
       /\ IsStatus(id) /\ Finished(id) /\ Len(Replies(id)) = 1
       /\ At(id, "send_to") = {}

\* The terminal states of a /wake: Reported (acknowledgment, one probe, one
\* follow-up, all done) and Failed (one reply, an error, and nothing else).
Reported(id) == Finished(id) /\ Kinds(id) = FullWake
Failed(id) ==
  /\ Finished(id)
  /\ Len(Replies(id)) = 1 /\ Replies(id)[1].text \in ErrorTexts
  /\ Of(id, "sleep") = <<>> /\ Of(id, "ping") = <<>>

\* The handler of update id, a /wake of a sender on the allow-list, has started.
WakeRequested(id) == Handled(id) /\ Allowed(id) /\ IsWake(id)

\* C15 as claimed: every /wake of a sender on the allow-list eventually
\* reaches one of the two terminal states: Reported, or Failed with exactly
\* one error reply; there is no other way for it to end.
C15_WakeTerminates ==
  \A id \in Ids : WakeRequested(id) ~> (Reported(id) \/ Failed(id))

\* Update id failed: its device was not found, its address did not encode,
\* its socket or its send failed, or a reply of its was not delivered.
RequestFailed(id) ==
  \E i \in 1..Len(log[id]) :
    \/ log[id][i].kind = "lookup" /\ ~log[id][i].flag
    \/ log[id][i].kind \in {"encode", "socket", "send_to", "reply"} /\ ~log[id][i].ok

\* C16 as claimed: the failure of a request never ends the command loop, so
\* a verification in flight for another request goes on to its probe and its
\* follow-up.
C16_FailureIsolated ==
  (\E id \in Ids : RequestFailed(id)) => ~crashed

Decimals == <<"0", "1", "2", "3", "4", "5", "6", "7", "8", "9">>

\* The number a string of decimal digits denotes.
RECURSIVE DecimalValue(_, _)
DecimalValue(s, n) ==
  IF n = 0 THEN 0
  ELSE 10 * DecimalValue(s, n - 1)
         + (CHOOSE k \in 0..9 : Decimals[k + 1] = s[n])

\* The timeout a device's field denotes: its value when it is an unsigned
\* integer, 30 otherwise.
ExpectedTimeout(s) ==
  IF s # <<>> /\ \A i \in 1..Len(s) : \E k \in 1..10 : Decimals[k] = s[i]
  THEN DecimalValue(s, Len(s))
  ELSE 30

\* The acknowledgments of update id that were delivered.
Acks(id) == { i \in At(id, "reply") : log[id][i].text = "ack" /\ log[id][i].ok }

\* C17: for every /wake of a device of the registry, the timeout the
\* acknowledgment announces and the delay waited before the probe are the
\* same number: the device's timeout field as an unsigned integer, or 30
\* when the field is not one.
C17_AnnouncedIsWaited ==
  \A id \in Ids : WakeOfConfigured(id) =>
    LET L == log[id]
        expected == ExpectedTimeout(Entry(Arg(id)).timeout)
    IN /\ \A i \in At(id, "reply") : L[i].text = "ack" => L[i].num = expected
       /\ \A i \in At(id, "sleep") : L[i].num = expected
       /\ \A c \in Chats : (worker[c].pc = "sleeping" /\ worker[c].m.id = id) =>
            \A a \in Acks(id) : worker[c].wakeAt = L[a].t + expected
       /\ \A i \in At(id, "ping") : \A a \in Acks(id) : L[i].t >= L[a].t + expected

\* A /wake of "nas", whose timeout field is "x", was acknowledged with 30
\* and probed 30 seconds or more later.
C17_Witness ==
  \E id \in Ids :
    /\ WakeOfConfigured(id) /\ Arg(id) = "nas" /\ Entry("nas").timeout = <<"x">>
    /\ Kinds(id) = FullWake
    /\ log[id][6].num = 30
    /\ log[id][8].t >= log[id][6].t + 30

\* C18 as claimed: the verification timeout of every wake is positive: for
\* every timeout field, "0" included, the probe comes a second or more after
\* the acknowledgment.
C18_TimeoutPositive ==
  \A id \in Ids : WakeOfConfigured(id) =>
    /\ \A i \in At(id, "sleep") : log[id][i].num >= 1
    /\ \A i \in At(id, "ping") : \A a \in Acks(id) :
         log[id][i].t >= log[id][a].t + 1

\* The number of probes of update id that have returned by position i.
PingedUpTo(id, i) == Cardinality({ j \in At(id, "pinged") : j <= i })

\* C19: a probe is false both when ping reports the address unreachable and
\* when ping cannot be run, and the caller sees the same thing in both
\* cases: the /status reply and the follow-up of a wake say offline, the
\* /status_all report marks the device offline, and there is no error reply
\* and no panic.
C19_ProbeFailureIsOffline ==
  \A id \in Ids : \A i \in At(id, "pinged") :
    LET L == log[id] IN
    L[i].text \in {"failure", "spawn_error"} =>
      /\ ~L[i].flag
      /\ Len(L) > i
      /\ (IsStatus(id) =>
            /\ L[i + 1].kind = "reply" /\ L[i + 1].text = "status"
            /\ L[i + 1].name = Arg(id) /\ ~L[i + 1].flag)
      /\ (IsWake(id) =>
            /\ L[i + 1].kind = "reply" /\ L[i + 1].text = "result"
            /\ L[i + 1].name = Arg(id) /\ ~L[i + 1].flag)
      /\ (sent[id].parts = <<"/status_all">> =>
            /\ L[i + 1].kind \in {"ping", "reply"}
            /\ \A r \in At(id, "reply") :
                 L[r].text = "report" => L[r].data[PingedUpTo(id, i)] = 0)
      /\ At(id, "panic") = {}
      /\ \A r \in At(id, "reply") : L[r].text \notin ErrorTexts

\* A /status of "pc" whose ping could not be run and a /wake whose probe
\* found the address unreachable were both answered: offline.
C19_Witness ==
  /\ \E id \in Ids :
       /\ sent[id].parts = <<"/status", "pc">> /\ Finished(id)
       /\ \E i \in At(id, "pinged") : log[id][i].text = "spawn_error"
       /\ Len(Replies(id)) = 1 /\ ~Replies(id)[1].flag
  /\ \E id \in Ids :
       /\ IsWake(id) /\ Kinds(id) = FullWake
       /\ log[id][9].text = "failure" /\ ~log[id][10].flag

\* C20: an update without a sender is handled as that of user 0: it is
\* processed exactly when 0 is on the allow-list, and dropped without a
\* reply otherwise.
C20_NoSenderIsUserZero ==
  \A id \in Ids : (Handled(id) /\ sent[id].from = <<>>) =>
    IF 0 \in ConfigFiles[config_path].allowed_users
    THEN /\ log[id][1].kind = "auth" /\ log[id][1].flag
         /\ (sent[id].parts = <<"/help">> =>
               Len(Replies(id)) = 1 /\ Replies(id)[1].text = "menu")
         /\ (IsWake(id) \/ IsStatus(id) =>
               Len(log[id]) >= 2 /\ log[id][2].kind = "lookup")
    ELSE Kinds(id) = <<"auth">> /\ ~log[id][1].flag

\* With 0 on the allow-list, a /help without a sender got the menu.
C20_Witness ==
  \E id \in Ids :
    /\ sent[id].from = <<>> /\ sent[id].parts = <<"/help">>
    /\ 0 \in ConfigFiles[config_path].allowed_users
    /\ Len(Replies(id)) = 1 /\ Replies(id)[1].ok

====
